---- MODULE Spec2Model ----
(***************************************************************************)
(* Model of package grace (task.go): the Task chain (With, WithNoErr,      *)
(* Then, Step, Next) and the execution of a chain by Run: one worker       *)
(* goroutine digging through the chain, and the caller's select over       *)
(* ctx.Done(), errChan and done.                                           *)
(*                                                                         *)
(* Four specifications share the variables:                                *)
(*   Spec      one call of Run on a chain built by With/WithNoErr/Then     *)
(*   LiveSpec  Spec with the fairness of the Go scheduler                  *)
(*   TwoSpec   two concurrent calls of Run on the same chain               *)
(*   ThenSpec  arbitrary sequences of With, WithNoErr and Then on a heap   *)
(***************************************************************************)
EXTENDS Integers, Sequences, FiniteSets, TLC

\* ------------------------------------------------------------------ bounds
\* longest chain handed to Run
MaxChain == 3
\* number of task nodes the heap may hold in ThenSpec
MaxNodes == 5
\* longest chain handed to Run in LiveSpec
MaxLiveChain == 2
\* longest chain two invocations of Run share in TwoSpec
MaxPeerChain == 1

\* --------------------------------------------------------- program values
\* capacity of errChan and of done: make(chan error, 1), make(chan struct{}, 1)
ChanCap == 1

\* the nil Task (a node address is a positive index into heap)
NilTask == 0

\* error values: id is the identity of the value (what == and errors.Is see),
\* msg is the text Error() returns
NoErr == [id |-> "nil", msg |-> ""]
Canceled == [id |-> "context.Canceled", msg |-> "context canceled"]
DeadlineExceeded == [id |-> "context.DeadlineExceeded", msg |-> "context deadline exceeded"]
ErrA == [id |-> "errA", msg |-> "i am here"]
ErrB == [id |-> "errB", msg |-> "test error"]
\* the runtime.Error of a call through a nil func value
ErrNilDeref == [id |-> "runtime.Error",
                msg |-> "invalid memory address or nil pointer dereference"]

\* errors.New(text): a fresh error value carrying the text
ErrorsNew(text) == [id |-> "errors.New", msg |-> text]

\* panic payloads: type is the dynamic type recover() yields
NoPayload == [type |-> "nil", err |-> NoErr, text |-> ""]
PanicError(e) == [type |-> "error", err |-> e, text |-> ""]
PanicString(s) == [type |-> "string", err |-> NoErr, text |-> s]
\* a struct value obj{msg: m}
PanicStruct(m) == [type |-> "struct", err |-> NoErr, text |-> m]

\* fmt.Sprintf("%+v", p) of a struct with one field msg
FormatPlusV(p) == "{msg:" \o p.text \o "}"

\* fmt.Errorf("%+v", p)
FmtErrorf(p) == [id |-> "fmt.Errorf", msg |-> FormatPlusV(p)]

\* what one invocation of a function does
Return(e) == [kind |-> "return", err |-> e, payload |-> NoPayload]
Panic(p) == [kind |-> "panic", err |-> NoErr, payload |-> p]
Block == [kind |-> "block", err |-> NoErr, payload |-> NoPayload]

\* the caller-supplied functions (opaque to the package) and the two no-ops
\* the constructors substitute for nil
NilFn == "nil"
StepArgs == {NilFn, "ok", "failA", "failB", "panicErr", "block"}
ActionArgs == {NilFn, "act", "panicStr", "panicObj"}

Body(fn) ==
  CASE fn = NilFn -> Panic(PanicError(ErrNilDeref))
    [] fn = "ok" -> Return(NoErr)
    [] fn = "With.noop" -> Return(NoErr)
    [] fn = "failA" -> Return(ErrA)
    [] fn = "failB" -> Return(ErrB)
    [] fn = "panicErr" -> Panic(PanicError(Canceled))
    [] fn = "block" -> Block
    [] fn = "act" -> Return(NoErr)
    [] fn = "WithNoErr.noop" -> Return(NoErr)
    [] fn = "panicStr" -> Panic(PanicString("simpleton"))
    [] fn = "panicObj" -> Panic(PanicStruct("test message"))

\* a Step value: fn is the function, wrap says whether it is the closure
\* WithNoErr builds around it (call fn, then return nil)
Invoke(step) ==
  IF step.wrap /\ Body(step.fn).kind = "return"
  THEN Return(NoErr)
  ELSE Body(step.fn)

\* ------------------------------------------------------------ constructors
\* every operation on the heap yields the new heap and the returned Task
\* With as it would be without the substitution of a no-op for nil
WithKeepsNil(h, fn) ==
  [heap |-> Append(h, [step |-> [fn |-> fn, wrap |-> FALSE], next |-> NilTask]),
   ref |-> Len(h) + 1]

With(h, fn) ==
  LET step == IF fn = NilFn THEN [fn |-> "With.noop", wrap |-> FALSE]
                            ELSE [fn |-> fn, wrap |-> FALSE]
  IN [heap |-> Append(h, [step |-> step, next |-> NilTask]), ref |-> Len(h) + 1]

WithNoErr(h, fn) ==
  LET step == IF fn = NilFn THEN [fn |-> "WithNoErr.noop", wrap |-> TRUE]
                            ELSE [fn |-> fn, wrap |-> TRUE]
  IN [heap |-> Append(h, [step |-> step, next |-> NilTask]), ref |-> Len(h) + 1]

\* the last node of the chain that starts at t
RECURSIVE LastNode(_, _)
LastNode(h, t) == IF h[t].next = NilTask THEN t ELSE LastNode(h, h[t].next)

\* Then as it would be with a shallow copy: only the head is copied and that
\* is hung on the last node of the existing chain
ThenShallow(h, t, that) ==
  LET cp == Len(h) + 1
      h1 == Append(h, [step |-> h[t].step, next |-> h[t].next])
  IN [heap |-> [h1 EXCEPT ![LastNode(h1, cp)].next = that], ref |-> cp]

\* Then as it would be if the copy's successor were always replaced by that
ThenOverwrite(h, t, that) ==
  LET cp == Len(h) + 1
      h1 == Append(h, [step |-> h[t].step, next |-> h[t].next])
  IN [heap |-> [h1 EXCEPT ![cp].next = that], ref |-> cp]

\* ------------------------------------------------------------------- Then
RECURSIVE Then(_, _, _)
Then(h, t, that) ==
  LET cp == Len(h) + 1
      h1 == Append(h, [step |-> h[t].step, next |-> h[t].next])
  IN IF h1[cp].next = NilTask
     THEN [heap |-> [h1 EXCEPT ![cp].next = that], ref |-> cp]
     ELSE LET r == Then(h1, h1[cp].next, that)
          IN [heap |-> [r.heap EXCEPT ![cp].next = r.ref], ref |-> cp]

\* the nodes of the chain that starts at t, by following Next()
RECURSIVE ChainNodes(_, _)
ChainNodes(h, t) ==
  IF t = NilTask THEN <<>> ELSE <<t>> \o ChainNodes(h, h[t].next)

\* the steps of the chain that starts at t, by Step() of each node
StepSeq(h, t) ==
  LET cn == ChainNodes(h, t) IN [i \in 1..Len(cn) |-> h[cn[i]].step]

\* ---------------------------------------------------------------- state
VARIABLES
  heap,      \* the task nodes allocated so far: heap[a] = [step, next]
  lastCall,  \* the last constructor or Then call and what it returned
  head,      \* the Task Run is called on
  ctxErr,    \* ctx.Err(): NoErr until the context fires
  cpc,       \* where the caller of Run is
  wpc,       \* where the worker goroutine is
  tt,        \* the worker's current node
  werr,      \* the worker's local err (line 83)
  pval,      \* the value the worker is panicking with
  errChan,   \* [buf, closed]
  done,      \* [buf, closed]
  result,    \* what Run returned
  started,   \* nodes whose step the worker has invoked, in order
  finished,  \* how each invoked step ended, in order
  sent,      \* the values the worker sent, in order, with their channel
  sel,       \* what the select saw when it chose
  fault,     \* a runtime panic the worker did not recover from
  seen,      \* what the worker saw of the context: ctx.Err() at each pre-step
             \* check, and the steps it started after the context had fired
  peer       \* a second invocation of Run on the same Task, with its own context

heapVars == <<heap, lastCall>>
runVars == <<head, ctxErr, cpc, wpc, tt, werr, pval, errChan, done, result,
             started, finished, sent, sel, fault, seen, peer>>
vars == <<heap, lastCall, head, ctxErr, cpc, wpc, tt, werr, pval, errChan,
          done, result, started, finished, sent, sel, fault, seen, peer>>

NewChan == [buf |-> <<>>, closed |-> FALSE]
NoCall == [op |-> "none", t |-> NilTask, that |-> NilTask, ref |-> NilTask]
NoSeen == [atCall |-> NoErr, checks |-> <<>>, afterFire |-> 0]
\* no second invocation
NoPeer == [cpc |-> "absent"]
NoSel == [chosen |-> "none", ctxErr |-> NoErr, errChan |-> NewChan,
          done |-> NewChan, finished |-> <<>>]

\* ----------------------------------------------------------- building chains
\* how the caller makes one single-node task
Makers == {[ctor |-> "With", arg |-> a] : a \in StepArgs}
            \cup {[ctor |-> "WithNoErr", arg |-> a] : a \in ActionArgs}

Make(h, m) == IF m.ctor = "With" THEN With(h, m.arg) ELSE WithNoErr(h, m.arg)

\* the single-node tasks for ms, allocated in order
RECURSIVE MakeAll(_, _)
MakeAll(h, ms) ==
  IF ms = <<>> THEN h ELSE MakeAll(Make(h, Head(ms)).heap, Tail(ms))

\* t1.Then(t2).Then(t3)... over the nodes first..last, starting from acc
RECURSIVE ThenAll(_, _, _, _)
ThenAll(h, acc, i, last) ==
  IF i > last THEN [heap |-> h, ref |-> acc]
  ELSE LET r == Then(h, acc, i) IN ThenAll(r.heap, r.ref, i + 1, last)

BuildChain(ms) == ThenAll(MakeAll(<<>>, ms), 1, 2, Len(ms))

RunIdle ==
  /\ ctxErr = NoErr
  /\ cpc = "idle"
  /\ wpc = "none"
  /\ tt = NilTask
  /\ werr = NoErr
  /\ pval = NoPayload
  /\ errChan = NewChan
  /\ done = NewChan
  /\ result = NoErr
  /\ started = <<>>
  /\ finished = <<>>
  /\ sent = <<>>
  /\ sel = NoSel
  /\ fault = "none"
  /\ seen = NoSeen

Init ==
  /\ \E n \in 1..MaxChain : \E ms \in [1..n -> Makers] :
       LET c == BuildChain(ms) IN heap = c.heap /\ head = c.ref
  /\ lastCall = NoCall
  /\ RunIdle
  /\ peer = NoPeer

\* -------------------------------------------------------------------- Run
\* lines 55-56 and 74-75: make the channels, start the worker at t
CallRun ==
  /\ cpc = "idle"
  /\ cpc' = "select"
  /\ errChan' = NewChan
  /\ done' = NewChan
  /\ wpc' = "dig"
  /\ tt' = head
  /\ seen' = [seen EXCEPT !.atCall = ctxErr]
  /\ UNCHANGED <<heap, lastCall, head, ctxErr, werr, pval, result, started,
                 finished, sent, sel, fault, peer>>

\* the context is cancelled or its deadline expires
CtxFire ==
  /\ ctxErr = NoErr
  /\ \E e \in {Canceled, DeadlineExceeded} : ctxErr' = e
  /\ UNCHANGED <<heap, lastCall, head, cpc, wpc, tt, werr, pval, errChan,
                 done, result, started, finished, sent, sel, fault,
                 seen, peer>>

\* lines 78-80 as they would be if the result of ctx.Err() were ignored
WorkerCheckCtxIgnored ==
  /\ wpc = "dig"
  /\ wpc' = "call"
  /\ seen' = [seen EXCEPT !.checks = Append(@, ctxErr)]
  /\ UNCHANGED <<heap, lastCall, head, ctxErr, cpc, tt, werr, pval, errChan,
                 done, result, started, finished, sent, sel, fault, peer>>

\* lines 78-80
WorkerCheckCtx ==
  /\ wpc = "dig"
  /\ wpc' = IF ctxErr # NoErr THEN "deferred" ELSE "call"
  /\ seen' = [seen EXCEPT !.checks = Append(@, ctxErr)]
  /\ UNCHANGED <<heap, lastCall, head, ctxErr, cpc, tt, werr, pval, errChan,
                 done, result, started, finished, sent, sel, fault, peer>>

\* lines 81 and 83: step := tt.Step(); step() is entered
WorkerStartStep ==
  /\ wpc = "call"
  /\ started' = Append(started, tt)
  /\ wpc' = "inflight"
  /\ seen' = [seen EXCEPT !.afterFire = IF ctxErr # NoErr THEN @ + 1 ELSE @]
  /\ UNCHANGED <<heap, lastCall, head, ctxErr, cpc, tt, werr, pval, errChan,
                 done, result, finished, sent, sel, fault, peer>>

\* line 83 as it would be if a returned error were dropped
WorkerStepReturnDropsErr ==
  /\ wpc = "inflight"
  /\ LET o == Invoke(heap[tt].step) IN
       /\ o.kind # "block"
       /\ finished' = Append(finished, o)
       /\ werr' = o.err
       /\ pval' = o.payload
       /\ wpc' = IF o.kind = "panic" THEN "deferred" ELSE "advance"
  /\ UNCHANGED <<heap, lastCall, head, ctxErr, cpc, tt, errChan, done, result,
                 started, sent, sel, fault, seen, peer>>

\* line 83: step() returns or panics
WorkerStepReturn ==
  /\ wpc = "inflight"
  /\ LET o == Invoke(heap[tt].step) IN
       /\ o.kind # "block"
       /\ finished' = Append(finished, o)
       /\ werr' = o.err
       /\ pval' = o.payload
       /\ wpc' = IF o.kind = "panic" THEN "deferred"
                 ELSE IF o.err # NoErr THEN "senderr"
                 ELSE "advance"
  /\ UNCHANGED <<heap, lastCall, head, ctxErr, cpc, tt, errChan, done, result,
                 started, sent, sel, fault, seen, peer>>

\* a send as it would be on an unbuffered channel: it waits for the receiver
CanSendUnbuffered(ch) == ch.closed \/ (Len(ch.buf) < ChanCap /\ cpc = "select")

\* a send blocks while the buffer is full; on a closed channel it panics
CanSend(ch) == ch.closed \/ Len(ch.buf) < ChanCap

\* lines 84-85 as they would be without the return after the send
WorkerSendErrNoReturn ==
  /\ wpc = "senderr"
  /\ CanSend(errChan)
  /\ IF errChan.closed
     THEN /\ fault' = "send on closed channel"
          /\ wpc' = "crashed"
          /\ UNCHANGED <<errChan, sent>>
     ELSE /\ errChan' = [errChan EXCEPT !.buf = Append(@, werr)]
          /\ sent' = Append(sent, [ch |-> "errChan", val |-> werr])
          /\ wpc' = "advance"
          /\ UNCHANGED fault
  /\ UNCHANGED <<heap, lastCall, head, ctxErr, cpc, tt, werr, pval, done,
                 result, started, finished, sel, seen, peer>>

\* lines 84-85: errChan <- err; return
WorkerSendErr ==
  /\ wpc = "senderr"
  /\ CanSend(errChan)
  /\ IF errChan.closed
     THEN /\ fault' = "send on closed channel"
          /\ wpc' = "crashed"
          /\ UNCHANGED <<errChan, sent>>
     ELSE /\ errChan' = [errChan EXCEPT !.buf = Append(@, werr)]
          /\ sent' = Append(sent, [ch |-> "errChan", val |-> werr])
          /\ wpc' = "deferred"
          /\ UNCHANGED fault
  /\ UNCHANGED <<heap, lastCall, head, ctxErr, cpc, tt, werr, pval, done,
                 result, started, finished, sel, seen, peer>>

\* lines 89-92 as they would be without the dig into the next task
WorkerAdvanceNoDig ==
  /\ wpc = "advance"
  /\ tt' = tt
  /\ wpc' = "senddone"
  /\ UNCHANGED <<heap, lastCall, head, ctxErr, cpc, werr, pval, errChan, done,
                 result, started, finished, sent, sel, fault, seen, peer>>

\* lines 89-92 as they would be if the jump went past the ctx.Err() check
WorkerAdvancePastCheck ==
  /\ wpc = "advance"
  /\ IF heap[tt].next # NilTask
     THEN tt' = heap[tt].next /\ wpc' = "call"
     ELSE tt' = tt /\ wpc' = "senddone"
  /\ UNCHANGED <<heap, lastCall, head, ctxErr, cpc, werr, pval, errChan, done,
                 result, started, finished, sent, sel, fault, seen, peer>>

\* lines 89-92
WorkerAdvance ==
  /\ wpc = "advance"
  /\ IF heap[tt].next # NilTask
     THEN tt' = heap[tt].next /\ wpc' = "dig"
     ELSE tt' = tt /\ wpc' = "senddone"
  /\ UNCHANGED <<heap, lastCall, head, ctxErr, cpc, werr, pval, errChan, done,
                 result, started, finished, sent, sel, fault, seen, peer>>

\* line 95: done <- struct{}{}
WorkerSendDone ==
  /\ wpc = "senddone"
  /\ CanSend(done)
  /\ IF done.closed
     THEN /\ fault' = "send on closed channel"
          /\ wpc' = "crashed"
          /\ UNCHANGED <<done, sent>>
     ELSE /\ done' = [done EXCEPT !.buf = Append(@, "struct{}{}")]
          /\ sent' = Append(sent, [ch |-> "done", val |-> NoErr])
          /\ wpc' = "deferred"
          /\ UNCHANGED fault
  /\ UNCHANGED <<heap, lastCall, head, ctxErr, cpc, tt, werr, pval, errChan,
                 result, started, finished, sel, seen, peer>>

\* lines 61-67: the error the deferred function sends for the recovered p
RecoverErr(p) ==
  IF p.type = "error" THEN p.err
  ELSE IF p.type = "string" THEN ErrorsNew(p.text)
  ELSE FmtErrorf(p)

\* lines 58-68: the deferred function recovers and reports a panic
WorkerRecover ==
  /\ wpc = "deferred"
  /\ IF pval # NoPayload
     THEN /\ CanSend(errChan)
          /\ IF errChan.closed
             THEN /\ fault' = "send on closed channel"
                  /\ wpc' = "crashed"
                  /\ UNCHANGED <<errChan, sent, pval>>
             ELSE /\ errChan' = [errChan EXCEPT !.buf = Append(@, RecoverErr(pval))]
                  /\ sent' = Append(sent, [ch |-> "errChan", val |-> RecoverErr(pval)])
                  /\ pval' = NoPayload
                  /\ wpc' = "closedone"
                  /\ UNCHANGED fault
     ELSE /\ wpc' = "closedone"
          /\ UNCHANGED <<errChan, sent, pval, fault>>
  /\ UNCHANGED <<heap, lastCall, head, ctxErr, cpc, tt, werr, done, result,
                 started, finished, sel, seen, peer>>

\* line 70 as it would be if done were left open
WorkerCloseDoneSkipped ==
  /\ wpc = "closedone"
  /\ wpc' = "closeerr"
  /\ UNCHANGED <<heap, lastCall, head, ctxErr, cpc, tt, werr, pval, errChan,
                 done, result, started, finished, sent, sel, fault, seen, peer>>

\* line 70, the later defer, runs first: close(done)
WorkerCloseDone ==
  /\ wpc = "closedone"
  /\ IF done.closed
     THEN fault' = "close of closed channel" /\ wpc' = "crashed" /\ done' = done
     ELSE done' = [done EXCEPT !.closed = TRUE] /\ wpc' = "closeerr" /\ fault' = fault
  /\ UNCHANGED <<heap, lastCall, head, ctxErr, cpc, tt, werr, pval, errChan,
                 result, started, finished, sent, sel, seen, peer>>

\* line 69: close(errChan), then the goroutine ends
WorkerCloseErrChan ==
  /\ wpc = "closeerr"
  /\ IF errChan.closed
     THEN fault' = "close of closed channel" /\ wpc' = "crashed" /\ errChan' = errChan
     ELSE errChan' = [errChan EXCEPT !.closed = TRUE] /\ wpc' = "exit" /\ fault' = fault
  /\ UNCHANGED <<heap, lastCall, head, ctxErr, cpc, tt, werr, pval, done,
                 result, started, finished, sent, sel, seen, peer>>

\* a receive is ready when the buffer holds a value or the channel is closed
CanRecv(ch) == ch.buf # <<>> \/ ch.closed

\* the select as it would be without the ctx.Done() case
ReadyCasesNoCtx ==
  (IF CanRecv(errChan) THEN {"errChan"} ELSE {})
    \cup (IF CanRecv(done) THEN {"done"} ELSE {})

\* the cases of the select (lines 98-105) that can proceed
ReadyCases ==
  (IF ctxErr # NoErr THEN {"ctx"} ELSE {})
    \cup (IF CanRecv(errChan) THEN {"errChan"} ELSE {})
    \cup (IF CanRecv(done) THEN {"done"} ELSE {})

\* lines 98-105: select picks any one of the ready cases
CallerSelect ==
  /\ cpc = "select"
  /\ \E c \in ReadyCases :
       /\ sel' = [chosen |-> c, ctxErr |-> ctxErr, errChan |-> errChan,
                  done |-> done, finished |-> finished]
       /\ IF c = "ctx"
          THEN result' = ctxErr /\ UNCHANGED <<errChan, done>>
          ELSE IF c = "errChan"
          THEN /\ result' = IF errChan.buf # <<>> THEN Head(errChan.buf) ELSE NoErr
               /\ errChan' = IF errChan.buf # <<>>
                             THEN [errChan EXCEPT !.buf = Tail(@)] ELSE errChan
               /\ UNCHANGED done
          ELSE /\ result' = NoErr
               /\ done' = IF done.buf # <<>>
                          THEN [done EXCEPT !.buf = Tail(@)] ELSE done
               /\ UNCHANGED errChan
  /\ cpc' = "returned"
  /\ UNCHANGED <<heap, lastCall, head, ctxErr, wpc, tt, werr, pval, started,
                 finished, sent, fault, seen, peer>>

Next ==
  \/ CallRun
  \/ CtxFire
  \/ WorkerCheckCtx
  \/ WorkerStartStep
  \/ WorkerStepReturn
  \/ WorkerSendErr
  \/ WorkerAdvance
  \/ WorkerSendDone
  \/ WorkerRecover
  \/ WorkerCloseDone
  \/ WorkerCloseErrChan
  \/ CallerSelect

Spec == Init /\ [][Next]_vars

\* the Go scheduler runs every runnable goroutine: the caller's call and
\* select and each step of the worker are taken if they stay possible; a
\* step that blocks and a context that stays quiet are not forced
Fairness ==
  /\ WF_vars(CallRun)
  /\ WF_vars(WorkerCheckCtx)
  /\ WF_vars(WorkerStartStep)
  /\ WF_vars(WorkerStepReturn)
  /\ WF_vars(WorkerSendErr)
  /\ WF_vars(WorkerAdvance)
  /\ WF_vars(WorkerSendDone)
  /\ WF_vars(WorkerRecover)
  /\ WF_vars(WorkerCloseDone)
  /\ WF_vars(WorkerCloseErrChan)
  /\ WF_vars(CallerSelect)

\* the chains of the runs whose termination is checked
LiveInit ==
  /\ \E n \in 1..MaxLiveChain : \E ms \in [1..n -> Makers] :
       LET c == BuildChain(ms) IN heap = c.heap /\ head = c.ref
  /\ lastCall = NoCall
  /\ RunIdle
  /\ peer = NoPeer

LiveSpec == LiveInit /\ [][Next]_vars /\ Fairness

\* ---------------------------------------------------------------- TwoSpec
\* A second invocation t.Run(ctx2) of the same Task, concurrent with the
\* first.  Its context, its worker's locals and the two channels it makes are
\* its own (lines 54-55): they are the fields of peer.
ownVars == <<head, ctxErr, cpc, wpc, tt, werr, pval, errChan, done, result,
             started, finished, sent, sel, fault, seen>>
notPeer == <<heap, lastCall, head, ctxErr, cpc, wpc, tt, werr, pval, errChan,
             done, result, started, finished, sent, sel, fault, seen>>

IdlePeer == [ctxErr |-> NoErr, cpc |-> "idle", wpc |-> "none", tt |-> NilTask,
             werr |-> NoErr, pval |-> NoPayload, errChan |-> NewChan,
             done |-> NewChan, result |-> NoErr, started |-> <<>>,
             chosen |-> "none"]

TwoInit ==
  /\ \E n \in 1..MaxPeerChain : \E ms \in [1..n -> Makers] :
       LET c == BuildChain(ms) IN heap = c.heap /\ head = c.ref
  /\ lastCall = NoCall
  /\ RunIdle
  /\ peer = IdlePeer

\* lines 55-56 and 74-75
PeerCallRun ==
  /\ peer.cpc = "idle"
  /\ peer' = [peer EXCEPT !.cpc = "select", !.errChan = NewChan,
                          !.done = NewChan, !.wpc = "dig", !.tt = head]
  /\ UNCHANGED notPeer

\* the second context is cancelled or its deadline expires
PeerCtxFire ==
  /\ peer.cpc # "absent"
  /\ peer.ctxErr = NoErr
  /\ \E e \in {Canceled, DeadlineExceeded} : peer' = [peer EXCEPT !.ctxErr = e]
  /\ UNCHANGED notPeer

\* lines 78-80
PeerWorkerCheckCtx ==
  /\ peer.cpc # "absent"
  /\ peer.wpc = "dig"
  /\ peer' = [peer EXCEPT !.wpc = IF peer.ctxErr # NoErr THEN "deferred" ELSE "call"]
  /\ UNCHANGED notPeer

\* lines 81 and 83
PeerWorkerStartStep ==
  /\ peer.cpc # "absent"
  /\ peer.wpc = "call"
  /\ peer' = [peer EXCEPT !.started = Append(@, peer.tt), !.wpc = "inflight"]
  /\ UNCHANGED notPeer

\* line 83
PeerWorkerStepReturn ==
  /\ peer.cpc # "absent"
  /\ peer.wpc = "inflight"
  /\ LET o == Invoke(heap[peer.tt].step) IN
       /\ o.kind # "block"
       /\ peer' = [peer EXCEPT !.werr = o.err, !.pval = o.payload,
                    !.wpc = IF o.kind = "panic" THEN "deferred"
                            ELSE IF o.err # NoErr THEN "senderr"
                            ELSE "advance"]
  /\ UNCHANGED notPeer

\* lines 84-85 as they would be if errChan were shared by the invocations
PeerWorkerSendErrShared ==
  /\ peer.cpc # "absent"
  /\ peer.wpc = "senderr"
  /\ CanSend(errChan)
  /\ peer' = [peer EXCEPT !.wpc = IF errChan.closed THEN "crashed" ELSE "deferred"]
  /\ errChan' = IF errChan.closed THEN errChan
                ELSE [errChan EXCEPT !.buf = Append(@, peer.werr)]
  /\ UNCHANGED <<heap, lastCall, head, ctxErr, cpc, wpc, tt, werr, pval, done,
                 result, started, finished, sent, sel, fault, seen>>

\* lines 84-85
PeerWorkerSendErr ==
  /\ peer.cpc # "absent"
  /\ peer.wpc = "senderr"
  /\ CanSend(peer.errChan)
  /\ peer' = IF peer.errChan.closed
             THEN [peer EXCEPT !.wpc = "crashed"]
             ELSE [peer EXCEPT !.errChan.buf = Append(@, peer.werr),
                               !.wpc = "deferred"]
  /\ UNCHANGED notPeer

\* lines 89-92
PeerWorkerAdvance ==
  /\ peer.cpc # "absent"
  /\ peer.wpc = "advance"
  /\ peer' = IF heap[peer.tt].next # NilTask
             THEN [peer EXCEPT !.tt = heap[peer.tt].next, !.wpc = "dig"]
             ELSE [peer EXCEPT !.wpc = "senddone"]
  /\ UNCHANGED notPeer

\* line 95
PeerWorkerSendDone ==
  /\ peer.cpc # "absent"
  /\ peer.wpc = "senddone"
  /\ CanSend(peer.done)
  /\ peer' = IF peer.done.closed
             THEN [peer EXCEPT !.wpc = "crashed"]
             ELSE [peer EXCEPT !.done.buf = Append(@, "struct{}{}"),
                               !.wpc = "deferred"]
  /\ UNCHANGED notPeer

\* lines 58-68
PeerWorkerRecover ==
  /\ peer.cpc # "absent"
  /\ peer.wpc = "deferred"
  /\ peer.pval # NoPayload => CanSend(peer.errChan)
  /\ peer' = IF peer.pval = NoPayload
             THEN [peer EXCEPT !.wpc = "closedone"]
             ELSE IF peer.errChan.closed
             THEN [peer EXCEPT !.wpc = "crashed"]
             ELSE [peer EXCEPT !.errChan.buf = Append(@, RecoverErr(peer.pval)),
                               !.pval = NoPayload, !.wpc = "closedone"]
  /\ UNCHANGED notPeer

\* line 70
PeerWorkerCloseDone ==
  /\ peer.cpc # "absent"
  /\ peer.wpc = "closedone"
  /\ peer' = IF peer.done.closed
             THEN [peer EXCEPT !.wpc = "crashed"]
             ELSE [peer EXCEPT !.done.closed = TRUE, !.wpc = "closeerr"]
  /\ UNCHANGED notPeer

\* line 69
PeerWorkerCloseErrChan ==
  /\ peer.cpc # "absent"
  /\ peer.wpc = "closeerr"
  /\ peer' = IF peer.errChan.closed
             THEN [peer EXCEPT !.wpc = "crashed"]
             ELSE [peer EXCEPT !.errChan.closed = TRUE, !.wpc = "exit"]
  /\ UNCHANGED notPeer

\* lines 98-105
PeerSelect ==
  /\ peer.cpc = "select"
  /\ \/ /\ peer.ctxErr # NoErr
        /\ peer' = [peer EXCEPT !.cpc = "returned", !.chosen = "ctx",
                                !.result = peer.ctxErr]
     \/ /\ CanRecv(peer.errChan)
        /\ peer' = [peer EXCEPT
             !.cpc = "returned", !.chosen = "errChan",
             !.result = IF peer.errChan.buf # <<>>
                        THEN Head(peer.errChan.buf) ELSE NoErr,
             !.errChan.buf = IF @ # <<>> THEN Tail(@) ELSE @]
     \/ /\ CanRecv(peer.done)
        /\ peer' = [peer EXCEPT
             !.cpc = "returned", !.chosen = "done", !.result = NoErr,
             !.done.buf = IF @ # <<>> THEN Tail(@) ELSE @]
  /\ UNCHANGED notPeer

PeerNext ==
  \/ PeerCallRun
  \/ PeerCtxFire
  \/ PeerWorkerCheckCtx
  \/ PeerWorkerStartStep
  \/ PeerWorkerStepReturn
  \/ PeerWorkerSendErr
  \/ PeerWorkerAdvance
  \/ PeerWorkerSendDone
  \/ PeerWorkerRecover
  \/ PeerWorkerCloseDone
  \/ PeerWorkerCloseErrChan
  \/ PeerSelect

TwoNext == Next \/ PeerNext

TwoSpec == TwoInit /\ [][TwoNext]_vars

\* --------------------------------------------------------------- ThenSpec
\* Then copies steps without calling them, so two distinguishable steps and
\* the two substituted no-ops are all the heap needs
HeapStepArgs == {NilFn, "ok", "failA"}
HeapActionArgs == {NilFn}

ThenInit ==
  /\ heap = <<>>
  /\ lastCall = NoCall
  /\ head = NilTask
  /\ RunIdle
  /\ peer = NoPeer

\* With(step)
CallWith ==
  /\ Len(heap) < MaxNodes
  /\ \E a \in HeapStepArgs :
       LET r == With(heap, a) IN
         /\ heap' = r.heap
         /\ lastCall' = [op |-> "With", t |-> NilTask, that |-> NilTask, ref |-> r.ref]
  /\ UNCHANGED runVars

\* WithNoErr(step)
CallWithNoErr ==
  /\ Len(heap) < MaxNodes
  /\ \E a \in HeapActionArgs :
       LET r == WithNoErr(heap, a) IN
         /\ heap' = r.heap
         /\ lastCall' = [op |-> "WithNoErr", t |-> NilTask, that |-> NilTask, ref |-> r.ref]
  /\ UNCHANGED runVars

\* t.Then(that), for any existing task t and any existing task or nil that
CallThen ==
  /\ \E t \in 1..Len(heap) : \E that \in 0..Len(heap) :
       LET r == Then(heap, t, that) IN
         /\ Len(r.heap) <= MaxNodes
         /\ heap' = r.heap
         /\ lastCall' = [op |-> "Then", t |-> t, that |-> that, ref |-> r.ref]
  /\ UNCHANGED runVars

ThenNext ==
  \/ CallWith
  \/ CallWithNoErr
  \/ CallThen

ThenSpec == ThenInit /\ [][ThenNext]_vars

\* ------------------------------------------------------------- properties
\* the chain Run is called on, and what each of its steps does when invoked
Chain == ChainNodes(heap, head)
ChainOutcomes == [i \in 1..Len(Chain) |-> Invoke(heap[Chain[i]].step)]
IsOk(o) == o = Return(NoErr)
AllOk(os) == \A i \in 1..Len(os) : IsOk(os[i])

\* the position of the first step that does not return nil, 0 if there is none
FirstFail ==
  IF AllOk(ChainOutcomes) THEN 0
  ELSE CHOOSE k \in 1..Len(Chain) :
         /\ ~IsOk(ChainOutcomes[k])
         /\ \A j \in 1..(k - 1) : IsOk(ChainOutcomes[j])

\* every step of the chain had been invoked and had returned nil
Completed(fin) == Len(fin) = Len(Chain) /\ AllOk(fin)

\* C1: with a context that never fires, when step k is the first to return a
\* non-nil error e, Run returns exactly e
C1_RunReturnsFirstError ==
  (/\ cpc = "returned"
   /\ ctxErr = NoErr
   /\ FirstFail # 0
   /\ ChainOutcomes[FirstFail].kind = "return")
    => result = ChainOutcomes[FirstFail].err

\* C2: whenever Run returns nil, every step of the chain was invoked and
\* returned nil, and the context had not fired
C2_NilOnlyOnFullSuccess ==
  (cpc = "returned" /\ result = NoErr)
    => (sel.ctxErr = NoErr /\ Completed(sel.finished))

\* C3: when the context has fired and the chain has not completed all of its
\* steps, Run returns the context's error
C3_CancelBeforeCompletionReturnsCtxErr ==
  (cpc = "returned" /\ sel.ctxErr # NoErr /\ ~Completed(sel.finished))
    => result = sel.ctxErr

\* C4: when the context has fired and a value of the worker is waiting on
\* errChan or on done as the select is evaluated, Run returns the context's
\* error
C4_CancellationWinsWhenBothReady ==
  (/\ cpc = "returned"
   /\ sel.ctxErr # NoErr
   /\ (sel.errChan.buf # <<>> \/ sel.done.buf # <<>>))
    => result = sel.ctxErr

\* C5: a chain of n >= 1 steps that all return nil, run with a context that
\* never fires: Run returns nil, and when it returns each of the n steps has
\* been executed exactly once, in chain order
C5_AllOkRunsEveryStepOnce ==
  (cpc = "returned" /\ ctxErr = NoErr /\ AllOk(ChainOutcomes))
    => /\ result = NoErr
       /\ started = Chain
       /\ Len(finished) = Len(Chain)
       /\ AllOk(finished)

C5_Witness ==
  /\ cpc = "returned"
  /\ ctxErr = NoErr
  /\ AllOk(ChainOutcomes)
  /\ Len(Chain) = MaxChain
  /\ result = NoErr
  /\ Len(finished) = MaxChain

\* C6: in every run steps are started in chain order: step i+1 starts only
\* after step i has returned nil, at most one step is in flight, and no step
\* is started twice
C6_StepsStartInChainOrder ==
  /\ Len(started) <= Len(Chain)
  /\ \A i \in 1..Len(started) : started[i] = Chain[i]
  /\ \A i, j \in 1..Len(started) : started[i] = started[j] => i = j
  /\ Len(finished) <= Len(started)
  /\ Len(started) <= Len(finished) + 1
  /\ (Len(started) = Len(finished) + 1) <=> (wpc = "inflight")
  /\ \A i \in 1..(Len(started) - 1) : Len(finished) >= i /\ IsOk(finished[i])

C6_Witness ==
  /\ Len(started) = MaxChain
  /\ wpc = "inflight"
  /\ Len(finished) = MaxChain - 1
  /\ ctxErr # NoErr
  /\ cpc = "returned"

\* C7: once a step has returned a non-nil error or has panicked, no later step
\* is started, and the worker sends that one failure and nothing else
C7_NothingAfterFailure ==
  \A k \in 1..Len(finished) :
    ~IsOk(finished[k]) =>
      /\ Len(started) = k
      /\ Len(finished) = k
      /\ Len(sent) <= 1
      /\ \A i \in 1..Len(sent) :
           /\ sent[i].ch = "errChan"
           /\ sent[i].val # NoErr
           /\ finished[k].kind = "return" => sent[i].val = finished[k].err

C7_Witness ==
  /\ Len(Chain) = MaxChain
  /\ Len(finished) = 2
  /\ ~IsOk(finished[2])
  /\ wpc = "exit"
  /\ Len(sent) = 1
  /\ Len(started) = 2

\* C8: with a context that never fires, when the first failing step panics
\* with payload p, Run returns the error p's kind determines: p itself when p
\* is an error, an error with the text when p is a string, an error with the
\* formatted payload otherwise
C8_PanicIsReturnedAsError ==
  (/\ cpc = "returned"
   /\ ctxErr = NoErr
   /\ FirstFail # 0
   /\ ChainOutcomes[FirstFail].kind = "panic")
    => LET p == ChainOutcomes[FirstFail].payload IN
         /\ p.type = "error" => result = p.err
         /\ p.type = "string" => (result # NoErr /\ result.msg = p.text)
         /\ p.type = "struct" => (result # NoErr /\ result.msg = "{msg:" \o p.text \o "}")

\* C9: a Then call (like With and WithNoErr) leaves the step and the next of
\* every node that existed before it as they were, so every existing task
\* still runs exactly its original steps
C9_ThenLeavesExistingNodes ==
  [][/\ Len(heap') >= Len(heap)
     /\ \A a \in 1..Len(heap) : heap'[a] = heap[a]
     /\ \A a \in 1..Len(heap) : StepSeq(heap', a) = StepSeq(heap, a)]_vars

C9_Witness ==
  /\ lastCall.op = "Then"
  /\ Len(ChainNodes(heap, lastCall.t)) >= 2
  /\ lastCall.that # NilTask
  /\ heap[lastCall.t].next # NilTask
  /\ heap[lastCall.that].next = NilTask

\* the step sequence of ab.Then(c), where ab is a.Then(b)
LeftAssoc(h, ab, c) ==
  LET r == Then(h, ab, c) IN StepSeq(r.heap, r.ref)

\* the step sequence of a.Then(b.Then(c))
RightAssoc(h, a, b, c) ==
  LET r1 == Then(h, b, c)
      r2 == Then(r1.heap, a, r1.ref)
  IN StepSeq(r2.heap, r2.ref)

\* C10: the step sequence of x.Then(y) is the step sequence of x followed by
\* that of y; and for the task x.Then(y) just made and every task c,
\* x.Then(y).Then(c) and x.Then(y.Then(c)) have the same step sequence: x's,
\* then y's, then c's
C10_ThenConcatenates ==
  lastCall.op = "Then" =>
    /\ StepSeq(heap, lastCall.ref)
         = StepSeq(heap, lastCall.t) \o StepSeq(heap, lastCall.that)
    /\ lastCall.that # NilTask =>
         \A c \in 1..Len(heap) :
           /\ LeftAssoc(heap, lastCall.ref, c)
                = RightAssoc(heap, lastCall.t, lastCall.that, c)
           /\ LeftAssoc(heap, lastCall.ref, c)
                = StepSeq(heap, lastCall.t) \o StepSeq(heap, lastCall.that)
                    \o StepSeq(heap, c)

C10_Witness ==
  /\ lastCall.op = "Then"
  /\ Len(StepSeq(heap, lastCall.t)) >= 2
  /\ Len(StepSeq(heap, lastCall.that)) >= 2
  /\ Len(StepSeq(heap, lastCall.ref)) >= 4

\* the worker is inside a step that never returns
StuckInStep == wpc = "inflight" /\ Invoke(heap[tt].step).kind = "block"

\* C11: under fair scheduling Run returns if the context fires or if no step
\* blocks forever; and when it returns while the worker is inside a step that
\* never returns, it returns the context's error
C11_RunEventuallyReturns ==
  /\ [](cpc = "returned" /\ StuckInStep => (ctxErr # NoErr /\ result = ctxErr))
  /\ \/ <>(cpc = "returned")
     \/ ([](ctxErr = NoErr) /\ <>StuckInStep)

C11_Witness ==
  /\ cpc = "returned"
  /\ StuckInStep
  /\ Len(started) = 2
  /\ result = DeadlineExceeded

\* Run is called on the task With(nil) or WithNoErr(nil) returned
NilArgTask ==
  /\ head = 1
  /\ heap = With(<<>>, NilFn).heap \/ heap = WithNoErr(<<>>, NilFn).heap

\* C12: With(nil) and WithNoErr(nil) return a non-nil task without successor,
\* whose Run does not panic and, with a context that never fires, returns nil
C12_NilArgIsNoOp ==
  /\ \A r \in {With(<<>>, NilFn), WithNoErr(<<>>, NilFn)} :
       r.ref # NilTask /\ r.heap[r.ref].next = NilTask
  /\ NilArgTask =>
       /\ fault = "none"
       /\ \A i \in 1..Len(finished) : finished[i] = Return(NoErr)
       /\ (cpc = "returned" /\ ctxErr = NoErr) => result = NoErr

C12_Witness ==
  /\ NilArgTask
  /\ heap[head].step.wrap
  /\ cpc = "returned"
  /\ ctxErr = NoErr
  /\ result = NoErr
  /\ wpc = "exit"
  /\ Len(finished) = 1

\* the worker has left the dig loop
Stopped == wpc \in {"deferred", "closedone", "closeerr", "exit", "crashed"}

\* s is t, or t with more appended
Extends(s, t) == Len(s) >= Len(t) /\ SubSeq(s, 1, Len(t)) = t

\* C13: when the worker's pre-step check for node k finds the context fired,
\* the worker stops: step k and the later steps are never started; a context
\* fired before Run was called lets no step start; what steps 1..k-1 did stays
C13_FiredAtCheckStartsNoStep ==
  /\ [](\A k \in 1..Len(seen.checks) :
          seen.checks[k] # NoErr =>
            /\ k = Len(seen.checks)
            /\ Len(started) = k - 1
            /\ Stopped)
  /\ []((cpc # "idle" /\ seen.atCall # NoErr) => started = <<>>)
  /\ [][Extends(started', started) /\ Extends(finished', finished)]_vars

C13_Witness ==
  /\ Len(seen.checks) = MaxChain
  /\ seen.checks[MaxChain] # NoErr
  /\ Len(finished) = MaxChain - 1
  /\ Len(started) = MaxChain - 1
  /\ wpc = "exit"

\* C14: the worker never sends on a closed channel and never closes a channel
\* twice; it sends only while both channels are open, a closed channel stays
\* closed, and when the worker has ended both channels are closed
C14_ChannelsClosedOnceAfterSend ==
  /\ [](fault = "none")
  /\ [](wpc = "exit" => (errChan.closed /\ done.closed))
  /\ [](wpc \in {"dig", "call", "inflight", "senderr", "advance", "senddone",
                 "deferred"} => (~errChan.closed /\ ~done.closed))
  /\ [][/\ sent' # sent => (~errChan.closed /\ ~done.closed)
        /\ errChan.closed => errChan'.closed
        /\ done.closed => done'.closed]_vars

C14_Witness ==
  /\ wpc = "exit"
  /\ errChan.closed
  /\ done.closed
  /\ Len(finished) = 2
  /\ finished[2].kind = "panic"
  /\ Len(sent) = 1
  /\ cpc = "select"

\* C18: the worker sends at most once in a run, and whenever it is about to
\* send the channel is open with an empty buffer, so the send does not block;
\* under fair scheduling the worker ends unless it is inside a step that
\* never returns, also when Run has returned and nobody receives any more
C18_WorkerNeverBlocksOnChannel ==
  /\ [](Len(sent) <= 1)
  /\ []((wpc = "senderr" \/ (wpc = "deferred" /\ pval # NoPayload))
          => (sent = <<>> /\ errChan.buf = <<>> /\ ~errChan.closed))
  /\ [](wpc = "senddone" => (sent = <<>> /\ done.buf = <<>> /\ ~done.closed))
  /\ (<>(wpc = "exit") \/ <>[]StuckInStep)

C18_Witness ==
  /\ cpc = "returned"
  /\ sel.chosen = "ctx"
  /\ sel.errChan.buf = <<>>
  /\ ~sel.done.closed
  /\ wpc = "exit"
  /\ errChan.buf # <<>>
  /\ Len(sent) = 1

\* C19: after the context has fired at most one more step is started in the
\* run, and that step's pre-step check had found the context quiet; this
\* holds for the whole life of the worker, also after Run has returned
C19_AtMostOneStepAfterFire ==
  /\ seen.afterFire <= 1
  /\ seen.afterFire = 1 =>
       /\ Len(seen.checks) >= Len(started)
       /\ \A k \in 1..Len(started) : seen.checks[k] = NoErr
  /\ (ctxErr # NoErr /\ wpc \in {"dig", "advance"}) =>
       \A k \in 1..Len(seen.checks) : seen.checks[k] = NoErr

C19_Witness ==
  /\ seen.afterFire = 1
  /\ Len(Chain) = MaxChain
  /\ Len(started) = 1
  /\ cpc = "returned"
  /\ sel.chosen = "ctx"
  /\ sel.finished = <<>>
  /\ wpc = "exit"
  /\ IsOk(finished[1])

\* a is reached from itself by one or more Next() in at most n steps
RECURSIVE ReachesIn(_, _, _, _)
ReachesIn(h, from, a, n) ==
  IF n = 0 \/ from = NilTask THEN FALSE
  ELSE h[from].next = a \/ ReachesIn(h, h[from].next, a, n - 1)

\* following Next() from a ends at nil within Len(h) nodes
RECURSIVE EndsIn(_, _, _)
EndsIn(h, a, n) ==
  IF a = NilTask THEN TRUE
  ELSE IF n = 0 THEN FALSE
  ELSE EndsIn(h, h[a].next, n - 1)

\* C16: after any sequence of With, WithNoErr and Then calls, self-composition
\* included, every task's chain is finite and no node reaches itself
C16_ChainsAreAcyclic ==
  \A a \in 1..Len(heap) :
    /\ EndsIn(heap, a, Len(heap))
    /\ ~ReachesIn(heap, a, a, Len(heap))

C16_Witness ==
  /\ lastCall.op = "Then"
  /\ lastCall.t = lastCall.that
  /\ heap[lastCall.t].next # NilTask
  /\ Len(ChainNodes(heap, lastCall.ref)) = 4

\* the set of the elements of a sequence
Range(f) == {f[i] : i \in DOMAIN f}

\* C17: no node of the chain t.Then(that) returns is a node of t's chain or of
\* that's chain
C17_ThenResultIsAllFresh ==
  lastCall.op = "Then" =>
    Range(ChainNodes(heap, lastCall.ref))
      \cap (Range(ChainNodes(heap, lastCall.t))
              \cup Range(ChainNodes(heap, lastCall.that))) = {}

\* what the first invocation's select received was produced by its own worker
OwnResult ==
  cpc = "returned" =>
    /\ sel.chosen = "ctx" => result = sel.ctxErr
    /\ sel.chosen = "errChan" =>
         \/ result # NoErr /\ sent = <<[ch |-> "errChan", val |-> result]>>
         \/ result = NoErr /\ wpc = "exit"
    /\ sel.chosen = "done" =>
         /\ result = NoErr
         /\ sent = <<[ch |-> "done", val |-> NoErr]>> \/ wpc \in {"closeerr", "exit"}

\* C15: with two concurrent invocations of Run on one Task, each step belongs
\* to one invocation and changes only that invocation's state; every step of
\* the first invocation is a step of Run alone, so its steps, its channels and
\* its result are those of a run alone whatever the other does; the nodes of
\* the chain are never written
C15_ConcurrentRunsAreIndependent ==
  /\ [](OwnResult /\ C6_StepsStartInChainOrder /\ fault = "none")
  /\ [][/\ heap' = heap
        /\ ownVars' = ownVars \/ peer' = peer
        /\ ownVars' # ownVars => Next
        /\ peer' # peer => PeerNext]_vars

C15_Witness ==
  /\ cpc = "returned"
  /\ ctxErr = NoErr
  /\ result = ErrA
  /\ wpc = "exit"
  /\ peer.cpc = "returned"
  /\ peer.ctxErr = Canceled
  /\ peer.result = Canceled
  /\ peer.wpc = "exit"
  /\ peer.started = started

====
